---------------------------- MODULE Spec2Model ----------------------------
(***************************************************************************)
(* A model of the FaaS control plane of faas-k8s:                          *)
(*   - the scale-to-zero gateway (src/gateway/main.py): invoke_function,   *)
(*     _ensure_scaled, the per-function asyncio.Lock map, the readiness    *)
(*     poll and the reverse proxy;                                         *)
(*   - the operator (src/operator/main.py): validate_spec, the manifest    *)
(*     builders, the four upserts, reconcile_function and the kopf         *)
(*     handlers.                                                           *)
(* The orchestration API (the cluster) is the environment: its objects     *)
(* are state, its calls may fail, pods become ready on their own.          *)
(***************************************************************************)
EXTENDS Integers, Sequences, FiniteSets, TLC

(***************************************************************************)
(* Bounds of the model.                                                    *)
(***************************************************************************)
\* number of concurrent invocations of the gateway
NumCallers == 2
\* orchestration calls of the gateway the environment may fail (non-404)
MaxFaults == 1
\* workloads the environment may delete while the gateway runs
MaxDeletes == 1

(***************************************************************************)
(* The configuration of the gateway.  Time is counted in seconds; the      *)
(* poll interval and ceiling are FAAS_POLL_INTERVAL / FAAS_POLL_TIMEOUT    *)
(* (lines 20-21), set small here: two polls before the wait times out.     *)
(***************************************************************************)
POLL_INTERVAL_SECONDS == 1
POLL_TIMEOUT_SECONDS == 2

Callers == 1..NumCallers

\* function names a request may carry; "F" and "f" differ only in case,
\* "ghost" has no workload
FunctionNames == {"f", "F", "g", "ghost"}

\* str.lower() on the names of the model
lower(s) == IF s = "F" THEN "f" ELSE s

_deployment_name_from_function(fn_name) == "fn-" \o lower(fn_name) \o "-deploy"

_service_name_from_function(fn_name) == "fn-" \o lower(fn_name) \o "-svc"

WorkloadNames == {_deployment_name_from_function(n) : n \in FunctionNames}

\* an object the cluster does not hold
NoObj == [exists |-> FALSE]

\* an unset dictionary entry of _function_locks
NoLock == [made |-> FALSE]

\* asyncio.Lock(): unlocked, no waiters; id tells the objects made for one
\* name apart, the first one is 1
NewLock == [made |-> TRUE, locked |-> FALSE, waiters |-> <<>>, id |-> 1]

VARIABLES
    function_locks,   \* _function_locks: name -> asyncio.Lock
    call,             \* per invocation: the coroutine's position and locals
    deploy,           \* the cluster's Deployments, by name
    faults,           \* orchestration failures the environment has injected
    deletes,          \* workloads the environment has deleted
    fn,               \* the Function resource: spec, generation, status
    objects,          \* the cluster's ConfigMap, Service and HPA of the Function
    rec,              \* the operator's handler: position and locals of the pass
    lastPass,         \* what the last reconcile pass sent and ended with
    opFaults,         \* orchestration failures injected into the operator
    opDeletes,        \* derived objects deleted by someone else
    http,             \* one HTTP exchange through the gateway, in detail
    wait              \* one _wait_for_pod_ready with its float arithmetic

gwVars == <<function_locks, call, faults, deletes, http, wait>>

opVars == <<fn, objects, rec, lastPass, opFaults, opDeletes>>

vars == <<function_locks, call, deploy, faults, deletes,
          fn, objects, rec, lastPass, opFaults, opDeletes, http, wait>>

(***************************************************************************)
(* The gateway.                                                            *)
(***************************************************************************)

\* HTTP statuses a function backend answers with
BackendStatuses == {200}

\* the locals of one invocation before it arrives
IdleCall ==
    [pc |-> "idle", fn |-> "f", total |-> 0, sleep |-> 0,
     ensure |-> "none", status |-> 0, sent |-> 0, patches |-> 0,
     elapsed |-> 0, lock |-> 0]

\* a Deployment as the gateway sees it
Workload(replicas, ready) ==
    [exists |-> TRUE, replicas |-> replicas, ready |-> ready]

\* mutant: a fresh lock for every call, the dictionary entry overwritten
_get_or_create_lock_fresh(locks, fn_name) ==
    [locks EXCEPT ![fn_name] =
        IF locks[fn_name] = NoLock
        THEN NewLock
        ELSE [NewLock EXCEPT !.id = locks[fn_name].id + 1]]

\* mutant: a second object replaces the entry of a name that has one
_get_or_create_lock_replaces(locks, fn_name) ==
    IF locks[fn_name] = NoLock
    THEN [locks EXCEPT ![fn_name] = NewLock]
    ELSE [locks EXCEPT ![fn_name].id = @ + 1]

\* _get_or_create_lock: dictionary lookup, lazy insert; no await inside, so
\* it runs without yielding to the event loop
_get_or_create_lock(locks, fn_name) ==
    IF locks[fn_name] = NoLock
    THEN [locks EXCEPT ![fn_name] = NewLock]
    ELSE locks

\* mutant: acquire never waits
LockIsFree_never_waits(lock) == TRUE

\* mutant: acquire always queues
LockIsFree_always_queues(lock) == FALSE

\* asyncio.Lock.acquire's fast path: not locked and no waiter queued
LockIsFree(lock) == ~lock.locked /\ lock.waiters = <<>>

\* the outcomes of one orchestration call on Deployment w: it succeeds if
\* the object exists, answers 404 if not, and may fail otherwise
ApiOutcomes(w) ==
    (IF deploy[w].exists THEN {"ok"} ELSE {"404"})
        \cup (IF faults < MaxFaults THEN {"fault"} ELSE {})

\* int(status.ready_replicas or 0)
ready_replicas(w) == deploy[w].ready

\* mutant: the double check is off by one
IsWarm_above_one(ready) == ready > 1

\* mutant: the double check never finds the workload warm
IsWarm_never(ready) == FALSE

\* line 131: the double check after the lock is taken
IsWarm(ready) == ready > 0

\* line 113: the poll's exit test
IsReady(ready) == ready >= 1

\* mutant: the loop goes round once more, at total = ceiling
PollContinues_inclusive(total) == total <= POLL_TIMEOUT_SECONDS

\* line 111: the poll's loop condition
PollContinues(total) == total < POLL_TIMEOUT_SECONDS

\* HTTPException status codes of the gateway
StatusNotFound == 404
StatusBadGateway == 502
StatusTimeout == 504

\* mutant: every ApiException becomes a 502, the 404 case forgotten
ApiFailureStatus_always_502(r) == StatusBadGateway

\* lines 74-77 and 100-103: an ApiException becomes an HTTPException, 404 for
\* a 404 and 502 for anything else
ApiFailureStatus(r) ==
    IF r = "404" THEN StatusNotFound ELSE StatusBadGateway

\* leaving `async with lock`: Lock.release() unlocks and wakes the first
\* waiter, which takes the lock when it next runs
ReleaseLock(c, after) ==
    LET n == call[c].fn
        w == function_locks[n].waiters
    IN  /\ function_locks' = [function_locks EXCEPT ![n].locked = FALSE]
        /\ call' = IF w # <<>> /\ after[Head(w)].pc = "waiting"
                      THEN [after EXCEPT ![Head(w)].pc = "woken"]
                      ELSE after

\* mutant: the exception is swallowed and invoke_function goes on to the proxy
Raise_swallowed(c, code, cl) ==
    ReleaseLock(c, [cl EXCEPT ![c].pc = "proxy", ![c].ensure = "raised",
                              ![c].status = code, ![c].total = 0])

\* mutant: the exception leaves _ensure_scaled with the lock still held
Raise_keeps_lock(c, code, cl) ==
    /\ call' = [cl EXCEPT ![c].pc = "done", ![c].ensure = "raised",
                          ![c].status = code, ![c].total = 0]
    /\ UNCHANGED function_locks
    /\ UNCHANGED <<opVars, http, wait>>

\* an HTTPException leaves _ensure_scaled through the lock and
\* invoke_function; FastAPI answers with its status code
Raise(c, code, cl) ==
    ReleaseLock(c, [cl EXCEPT ![c].pc = "done", ![c].ensure = "raised",
                              ![c].status = code, ![c].total = 0])

\* _ensure_scaled returns; invoke_function goes on to the proxy
Return(c, cl) ==
    ReleaseLock(c, [cl EXCEPT ![c].pc = "proxy", ![c].ensure = "ok",
                              ![c].total = 0])

\* a request for fn_name arrives: invoke_function calls _ensure_scaled, which
\* gets the lock object and enters `async with lock`.  Requests are numbered
\* in the order they arrive.
invoke_function(c, fn_name) ==
    /\ call[c].pc = "idle"
    /\ \A d \in Callers : d < c => call[d].pc # "idle"
    /\ LET locks == _get_or_create_lock(function_locks, fn_name)
           lock == locks[fn_name]
           arrived == [call EXCEPT ![c].fn = fn_name, ![c].lock = lock.id]
       IN  IF LockIsFree(lock)
           THEN /\ function_locks' = [locks EXCEPT ![fn_name].locked = TRUE]
                /\ call' = [arrived EXCEPT ![c].pc = "read"]
           ELSE /\ function_locks' =
                      [locks EXCEPT ![fn_name].waiters = Append(@, c)]
                /\ call' = [arrived EXCEPT ![c].pc = "waiting"]
    /\ UNCHANGED <<deploy, faults, deletes>>
    /\ UNCHANGED <<opVars, http, wait>>

\* a woken waiter resumes in Lock.acquire: leaves the queue, takes the lock
lock_acquire_resume(c) ==
    /\ call[c].pc = "woken"
    /\ LET n == call[c].fn IN
         function_locks' =
            [function_locks EXCEPT
                ![n].locked = TRUE,
                ![n].waiters = SelectSeq(@, LAMBDA x : x # c)]
    /\ call' = [call EXCEPT ![c].pc = "read"]
    /\ UNCHANGED <<deploy, faults, deletes>>
    /\ UNCHANGED <<opVars, http, wait>>

\* _ensure_scaled lines 130-132: the re-read under the lock
_ensure_scaled_read(c) ==
    /\ call[c].pc = "read"
    /\ LET w == _deployment_name_from_function(call[c].fn) IN
       \E r \in ApiOutcomes(w) :
          /\ faults' = IF r = "fault" THEN faults + 1 ELSE faults
          /\ CASE r # "ok" -> Raise(c, ApiFailureStatus(r), call)
               [] OTHER ->
                    IF IsWarm(ready_replicas(w))
                    THEN Return(c, call)
                    ELSE /\ call' = [call EXCEPT ![c].pc = "scale"]
                         /\ UNCHANGED function_locks
    /\ UNCHANGED <<deploy, deletes>>
    /\ UNCHANGED <<opVars, http, wait>>

\* _wait_for_pod_ready is entered with total = 0
EnterWait(c, cl) ==
    IF PollContinues(0)
    THEN /\ call' = [cl EXCEPT ![c].pc = "poll", ![c].total = 0]
         /\ UNCHANGED function_locks
    ELSE Raise(c, StatusTimeout, [cl EXCEPT ![c].total = 0])

\* _scale_deployment_to_one, then line 137
_scale_deployment_to_one(c) ==
    /\ call[c].pc = "scale"
    /\ LET w == _deployment_name_from_function(call[c].fn) IN
       \E r \in ApiOutcomes(w) :
          /\ faults' = IF r = "fault" THEN faults + 1 ELSE faults
          /\ CASE r # "ok" ->
                    /\ Raise(c, ApiFailureStatus(r), call)
                    /\ UNCHANGED deploy
               [] OTHER ->
                    /\ deploy' = [deploy EXCEPT ![w].replicas = 1]
                    /\ EnterWait(c, [call EXCEPT ![c].patches = @ + 1])
    /\ UNCHANGED deletes
    /\ UNCHANGED <<opVars, http, wait>>

\* _wait_for_pod_ready lines 112-115: one read of the loop, then return or
\* start to sleep
_wait_for_pod_ready_read(c) ==
    /\ call[c].pc = "poll"
    /\ LET w == _deployment_name_from_function(call[c].fn) IN
       \E r \in ApiOutcomes(w) :
          /\ faults' = IF r = "fault" THEN faults + 1 ELSE faults
          /\ CASE r # "ok" -> Raise(c, ApiFailureStatus(r), call)
               [] OTHER ->
                    IF IsReady(ready_replicas(w))
                    THEN Return(c, call)
                    ELSE /\ call' = [call EXCEPT
                                        ![c].pc = "sleep",
                                        ![c].sleep = POLL_INTERVAL_SECONDS]
                         /\ UNCHANGED function_locks
    /\ UNCHANGED <<deploy, deletes>>
    /\ UNCHANGED <<opVars, http, wait>>

\* _wait_for_pod_ready lines 116-120 and 111: the sleep is over, total grows,
\* the loop goes round or the wait times out
_wait_for_pod_ready_wake(c) ==
    /\ call[c].pc = "sleep"
    /\ call[c].sleep = 0
    /\ LET total == call[c].total + POLL_INTERVAL_SECONDS
           cl == [call EXCEPT ![c].total = total]
       IN  IF PollContinues(total)
           THEN /\ call' = [cl EXCEPT ![c].pc = "poll"]
                /\ UNCHANGED function_locks
           ELSE Raise(c, StatusTimeout, cl)
    /\ UNCHANGED <<deploy, faults, deletes>>
    /\ UNCHANGED <<opVars, http, wait>>

\* _proxy_to_function_service: one outbound request; the backend's status
\* is passed through, a transport failure is a 502
_proxy_to_function_service(c) ==
    /\ call[c].pc = "proxy"
    /\ \E s \in BackendStatuses \cup {StatusBadGateway} :
          call' = [call EXCEPT ![c].pc = "done", ![c].sent = @ + 1,
                               ![c].status = s]
    /\ UNCHANGED <<function_locks, deploy, faults, deletes>>
    /\ UNCHANGED <<opVars, http, wait>>

(***************************************************************************)
(* One HTTP exchange in detail: what the router accepts, what               *)
(* _proxy_to_function_service sends to the backend and what it answers.     *)
(***************************************************************************)
\* methods of the route, line 183
RouteMethods == {"GET", "POST", "PUT", "PATCH", "DELETE"}

\* methods an inbound request may carry
InboundMethods == {"GET", "POST", "HEAD"}

\* inbound paths, as their segments: /invoke/f, /invoke/f/foo, /other/f
InboundPaths == {<<"invoke", "f">>, <<"invoke", "f", "foo">>, <<"other", "f">>}

\* inbound query strings; "" is no query
InboundQueries == {"", "x=1"}

\* headers an inbound request may carry, as the client wrote them
InboundHeaders ==
    {[name |-> "Host", value |-> "gateway"], [name |-> "X-Test", value |-> "a"]}

Requests ==
    [method : InboundMethods, path : InboundPaths, query : InboundQueries,
     headers : SUBSET InboundHeaders, body : {"in"}]

\* what the backend answers
BackendAnswers == [status : {200, 503}, body : {"out"}]

NoRequest == [method |-> "none"]

NoResponse == [status |-> 0, body |-> ""]

IdleHttp ==
    [pc |-> "idle", request |-> NoRequest, function_name |-> "",
     outbound |-> NoRequest, response |-> NoResponse]

\* the router's answer to a known path with a method the route does not list
StatusMethodNotAllowed == 405

\* the path template "/invoke/{function_name}" of line 183: the parameter
\* matches one segment, it does not match "/"
route_match(path) == Len(path) = 2 /\ path[1] = "invoke"

\* request.headers: the names are lower-cased
header_lower(name) ==
    CASE name = "Host" -> "host"
      [] name = "X-Test" -> "x-test"
      [] OTHER -> name

\* lines 155-156: dict(request.headers) without "host"
forwarded_headers(request) ==
    {h \in {[name |-> header_lower(g.name), value |-> g.value] :
                g \in request.headers} : h.name # "host"}

\* lines 145-156 and 162-167: the request sent to the backend; the path is
\* request.url.path, the whole inbound path
outbound_request(fn_name, request) ==
    [method |-> request.method,
     host |-> _service_name_from_function(fn_name),
     path |-> request.path,
     query |-> request.query,
     headers |-> forwarded_headers(request),
     body |-> request.body]

\* the router in front of invoke_function: no route for the path is a 404,
\* a route without the method a 405, otherwise invoke_function is called with
\* the path parameter
route_invoke ==
    /\ http.pc = "received"
    /\ http' =
          IF ~route_match(http.request.path)
          THEN [http EXCEPT !.pc = "done",
                            !.response = [status |-> StatusNotFound,
                                          body |-> "detail"]]
          ELSE IF http.request.method \notin RouteMethods
          THEN [http EXCEPT !.pc = "done",
                            !.response = [status |-> StatusMethodNotAllowed,
                                          body |-> "detail"]]
          ELSE [http EXCEPT !.pc = "ensure",
                            !.function_name = http.request.path[2]]
    /\ UNCHANGED <<function_locks, call, deploy, faults, deletes>>
    /\ UNCHANGED <<opVars, wait>>

\* line 192: _ensure_scaled returns, or raises one of its HTTPExceptions
invoke_ensure ==
    /\ http.pc = "ensure"
    /\ \/ http' = [http EXCEPT !.pc = "proxy"]
       \/ \E code \in {StatusNotFound, StatusBadGateway, StatusTimeout} :
             http' = [http EXCEPT !.pc = "done",
                                  !.response = [status |-> code,
                                                body |-> "detail"]]
    /\ UNCHANGED <<function_locks, call, deploy, faults, deletes>>
    /\ UNCHANGED <<opVars, wait>>

\* _proxy_to_function_service lines 145-167: the outbound request is sent
proxy_send ==
    /\ http.pc = "proxy"
    /\ http' = [http EXCEPT
                  !.pc = "sent",
                  !.outbound = outbound_request(http.function_name,
                                                http.request)]
    /\ UNCHANGED <<function_locks, call, deploy, faults, deletes>>
    /\ UNCHANGED <<opVars, wait>>

\* lines 168-180: the backend's status and content are returned; a
\* transport failure is a 502
proxy_return ==
    /\ http.pc = "sent"
    /\ \/ \E resp \in BackendAnswers :
             http' = [http EXCEPT !.pc = "done", !.response = resp]
       \/ http' = [http EXCEPT !.pc = "done",
                               !.response = [status |-> StatusBadGateway,
                                             body |-> "detail"]]
    /\ UNCHANGED <<function_locks, call, deploy, faults, deletes>>
    /\ UNCHANGED <<opVars, wait>>

(***************************************************************************)
(* _wait_for_pod_ready with the arithmetic of the code.  POLL_INTERVAL and *)
(* POLL_TIMEOUT are float(os.getenv(...)) (lines 20-21) and total is a     *)
(* float (line 110): IEEE 754 binary64, every result rounded to 53         *)
(* significant bits, ties to even.  A number is written here in binary     *)
(* fixed point, most significant bit first, IntBits before the point and   *)
(* FracBits after it; every double the loop meets is exact in that form.   *)
(***************************************************************************)
FloatPrecision == 53
IntBits == 4
FracBits == 60
Width == IntBits + FracBits

\* the bits of an integer below 2^k, most significant first
RECURSIVE IntToBits(_, _)
IntToBits(q, k) ==
    IF k = 0 THEN <<>> ELSE IntToBits(q \div 2, k - 1) \o <<q % 2>>

\* 2^k modulo d, by repeated squaring
RECURSIVE PowMod(_, _)
PowMod(k, d) ==
    IF k = 0 THEN 1 % d
    ELSE LET h == PowMod(k \div 2, d)
         IN  (h * h * (IF k % 2 = 1 THEN 2 ELSE 1)) % d

\* what is left of r/d, 0 <= r < d, after k bits of its binary expansion
Remainder(r, d, k) == (r * PowMod(k, d)) % d

\* k bits of the binary expansion of r/d, 0 <= r < d
Expansion(r, d, k) ==
    [i \in 1..k |-> (2 * Remainder(r, d, i - 1)) \div d]

\* n/d cut off after FracBits bits; the last bit is set if anything was cut
\* off, so that rounding sees a non-zero tail
Truncated(n, d) ==
    LET bits == IntToBits(n \div d, IntBits) \o Expansion(n % d, d, FracBits)
    IN  IF Remainder(n % d, d, FracBits) = 0
        THEN bits
        ELSE [bits EXCEPT ![Width] = 1]

Zero == [i \in 1..Width |-> 0]

\* the carry into bit i of x + y: some lower bit generates one and every bit
\* between passes it on
Carry(x, y, i) ==
    IF \E j \in (i + 1)..Width :
          /\ x[j] + y[j] = 2
          /\ \A k \in (i + 1)..(j - 1) : x[k] + y[k] = 1
    THEN 1 ELSE 0

\* the element of a one-element set
Only(S) == CHOOSE r \in S : TRUE

\* x + y, exact
AddBits(x, y) ==
    Only({[i \in 1..Width |-> (u[i] + v[i] + Carry(u, v, i)) % 2] :
            u \in {x}, v \in {y}})

\* x < y
Less(x, y) ==
    \E u \in {x}, v \in {y} :
        \E i \in 1..Width :
            /\ u[i] < v[i]
            /\ \A j \in 1..(i - 1) : u[j] = v[j]

\* x with the bits after position last rounded away: to nearest, ties to even
RoundAt(x, last) ==
    IF last >= Width THEN x
    ELSE LET rest == \E i \in (last + 2)..Width : x[i] = 1
             up == /\ x[last + 1] = 1
                   /\ (rest \/ x[last] = 1)
         IN  Only({IF up THEN AddBits(kept, ulp) ELSE kept :
                     kept \in {[i \in 1..Width |-> IF i <= last THEN x[i] ELSE 0]},
                     ulp \in {[i \in 1..Width |-> IF i = last THEN 1 ELSE 0]}})

\* round to FloatPrecision significant bits, counted from the leading 1
RoundToDouble(x) ==
    IF x = Zero THEN x
    ELSE Only({RoundAt(x, lead + FloatPrecision - 1) :
                 lead \in {i \in 1..Width :
                             x[i] = 1 /\ \A j \in 1..(i - 1) : x[j] = 0}})

\* float("n/d" written as a decimal)
float(q) == Only({RoundToDouble(exact) : exact \in {Truncated(q.n, q.d)}})

\* a + b of two floats
FloatAdd(a, b) == Only({RoundToDouble(sum) : sum \in {AddBits(a, b)}})

\* values of FAAS_POLL_INTERVAL: 0.1, 0.25, 0.3, 0.5, 1
IntervalSettings ==
    {[n |-> 1, d |-> 10], [n |-> 1, d |-> 4], [n |-> 3, d |-> 10],
     [n |-> 1, d |-> 2], [n |-> 1, d |-> 1]}

\* values of FAAS_POLL_TIMEOUT: 0, 1, 2, 3
TimeoutSettings == {[n |-> k, d |-> 1] : k \in 0..3}

\* what one read of the ready count gives
ReadOutcomes == {"0", "1", "404", "fault"}

IdleWait ==
    [pc |-> "idle", interval |-> [n |-> 1, d |-> 1],
     timeout |-> [n |-> 0, d |-> 1], total |-> Zero, reads |-> 0,
     slept |-> 0, status |-> 0]

\* line 111: the loop condition
poll_loop_test ==
    /\ wait.pc = "loop"
    /\ wait' = IF Less(wait.total, float(wait.timeout))
               THEN [wait EXCEPT !.pc = "read"]
               ELSE [wait EXCEPT !.pc = "raised", !.status = StatusTimeout]
    /\ UNCHANGED <<function_locks, call, deploy, faults, deletes, http>>
    /\ UNCHANGED opVars

\* lines 112-114: one read of the ready count
poll_read ==
    /\ wait.pc = "read"
    /\ \E r \in ReadOutcomes :
          wait' =
            CASE r = "404" ->
                   [wait EXCEPT !.pc = "raised", !.reads = @ + 1,
                                !.status = StatusNotFound]
              [] r = "fault" ->
                   [wait EXCEPT !.pc = "raised", !.reads = @ + 1,
                                !.status = StatusBadGateway]
              [] r = "1" -> [wait EXCEPT !.pc = "returned", !.reads = @ + 1]
              [] OTHER -> [wait EXCEPT !.pc = "sleep", !.reads = @ + 1]
    /\ UNCHANGED <<function_locks, call, deploy, faults, deletes, http>>
    /\ UNCHANGED opVars

\* lines 115-116: asyncio.sleep(POLL_INTERVAL_SECONDS), then total grows
poll_sleep ==
    /\ wait.pc = "sleep"
    /\ wait' = [wait EXCEPT !.pc = "loop", !.slept = @ + 1,
                            !.total = FloatAdd(@, float(wait.interval))]
    /\ UNCHANGED <<function_locks, call, deploy, faults, deletes, http>>
    /\ UNCHANGED opVars

(***************************************************************************)
(* The environment of the gateway.                                         *)
(***************************************************************************)

\* a pod of a scaled-up workload becomes ready
PodReady(w) ==
    /\ deploy[w].exists
    /\ deploy[w].replicas >= 1
    /\ deploy[w].ready = 0
    /\ deploy' = [deploy EXCEPT ![w].ready = 1]
    /\ UNCHANGED <<function_locks, call, faults, deletes>>
    /\ UNCHANGED <<opVars, http, wait>>

\* the Function is deleted and its Deployment with it
DeleteWorkload(w) ==
    /\ deletes < MaxDeletes
    /\ deploy[w].exists
    /\ deploy' = [deploy EXCEPT ![w] = NoObj]
    /\ deletes' = deletes + 1
    /\ UNCHANGED <<function_locks, call, faults>>
    /\ UNCHANGED <<opVars, http, wait>>

\* the positions of an invocation inside _ensure_scaled
Scaling == {"waiting", "woken", "read", "scale", "poll", "sleep"}

\* a second passes: some coroutine sleeps, none is due to wake, and every
\* other one is queued on a lock, has ended or has not arrived (orchestration
\* calls and the event loop itself take no time).  The invocations that are
\* still inside _ensure_scaled have waited one second more.
Tick ==
    /\ \E c \in Callers : call[c].pc = "sleep"
    /\ \A c \in Callers :
          \/ call[c].pc = "sleep" /\ call[c].sleep > 0
          \/ call[c].pc \in {"idle", "waiting", "done"}
    /\ call' = [c \in Callers |->
                  [call[c] EXCEPT
                     !.sleep = IF call[c].pc = "sleep" THEN @ - 1 ELSE @,
                     !.elapsed = IF call[c].pc \in Scaling THEN @ + 1 ELSE @]]
    /\ UNCHANGED <<function_locks, deploy, faults, deletes>>
    /\ UNCHANGED <<opVars, http, wait>>

(***************************************************************************)
(* The operator: values of a Function's spec.                              *)
(* A spec field is absent, null, a string, an int, a bool or a float, as   *)
(* the API server delivers it; s holds a string's text, i a number's       *)
(* value (for a bool 0 or 1, as Python computes with it; for a float its   *)
(* integer part).                                                          *)
(***************************************************************************)
Absent == [t |-> "absent", s |-> "", i |-> 0]
None == [t |-> "none", s |-> "", i |-> 0]
StrV(x) == [t |-> "str", s |-> x, i |-> 0]
IntV(x) == [t |-> "int", s |-> "", i |-> x]
BoolV(b) == [t |-> "bool", s |-> "", i |-> IF b THEN 1 ELSE 0]
\* the float 1.5
Float15 == [t |-> "float", s |-> "1.5", i |-> 1]

\* dict.get(key, default): the default only when the key is absent
Get(v, default) == IF v.t = "absent" THEN default ELSE v

\* dict.get(key): None when the key is absent
GetOrNone(v) == Get(v, None)

\* isinstance(v, str)
IsStr(v) == v.t = "str"

\* isinstance(v, int): bool is a subclass of int
IsInt(v) == v.t \in {"int", "bool"}

\* str.strip() on the strings of the model
strip(x) ==
    CASE x = " " -> ""
      [] x = " x " -> "x"
      [] OTHER -> x

\* validate_spec: "ok", or the check that raised kopf.PermanentError
validate_spec(spec) ==
    LET code == GetOrNone(spec.code)
        runtime == GetOrNone(spec.runtime)
        min_replicas == Get(spec.minReplicas, IntV(0))
        max_replicas == GetOrNone(spec.maxReplicas)
    IN  CASE ~IsStr(code) \/ strip(code.s) = "" -> "code"
          [] ~IsStr(runtime) \/ strip(runtime.s) = "" -> "runtime"
          [] max_replicas = None -> "maxReplicas required"
          [] ~IsInt(min_replicas) \/ min_replicas.i < 0 -> "minReplicas"
          [] ~IsInt(max_replicas) \/ max_replicas.i < 1 -> "maxReplicas"
          [] min_replicas.i > max_replicas.i -> "minReplicas > maxReplicas"
          [] OTHER -> "ok"

\* get_resource_names
get_resource_names(fn_name) ==
    [deployment |-> "fn-" \o lower(fn_name) \o "-deploy",
     service |-> "fn-" \o lower(fn_name) \o "-svc",
     configmap |-> "fn-" \o lower(fn_name) \o "-code"]

\* program constants of the operator
DEFAULT_PORT == 8080
CpuUtilizationTarget == 50
HandlerRetryDelay == 30
ResumeRetryDelay == 60

\* the V1OwnerReference every derived object carries
owner_reference(owner) ==
    [kind |-> "Function", name |-> owner.name, uid |-> owner.uid,
     controller |-> TRUE]

\* no body / no address
NoBody == [kind |-> "none"]
NoIp == "None"

build_configmap_body(name, code, owner) ==
    [kind |-> "ConfigMap", name |-> name, data |-> code.s,
     owner |-> owner_reference(owner)]

build_deployment_body(name, spec, code_cm_name, owner) ==
    [kind |-> "Deployment", name |-> name,
     replicas |-> Get(spec.minReplicas, IntV(0)).i,
     runtime |-> GetOrNone(spec.runtime).s,
     code_cm |-> code_cm_name,
     function |-> owner.name,
     owner |-> owner_reference(owner)]

build_service_body(name, owner) ==
    [kind |-> "Service", name |-> name, port |-> DEFAULT_PORT,
     function |-> owner.name, cluster_ip |-> NoIp,
     owner |-> owner_reference(owner)]

Max(a, b) == IF a >= b THEN a ELSE b

build_hpa_body(name, spec, deploy_name, owner) ==
    [kind |-> "HorizontalPodAutoscaler", name |-> name,
     target |-> deploy_name,
     min_replicas |-> Max(1, Get(spec.minReplicas, IntV(1)).i),
     max_replicas |-> Get(spec.maxReplicas, IntV(3)).i,
     average_utilization |-> CpuUtilizationTarget,
     owner |-> owner_reference(owner)]

\* mutant: the gate looks at maxReplicas only
HpaEnabled_max_only(spec) == Get(spec.maxReplicas, IntV(1)).i > 1

\* line 538: the autoscaler's gate
HpaEnabled(spec) ==
    /\ Get(spec.maxReplicas, IntV(1)).i > 1
    /\ Get(spec.minReplicas, IntV(0)).i >= 1

\* mutant: the generation is never written
update_status_without_generation(status, phase, reason, deployment_name, service_name, generation) ==
    [phase |-> phase, reason |-> reason,
     deploymentName |-> deployment_name, serviceName |-> service_name,
     observedGeneration |-> status.observedGeneration]

\* update_status: the status patch
update_status(status, phase, reason, deployment_name, service_name, generation) ==
    [phase |-> phase, reason |-> reason,
     deploymentName |-> deployment_name, serviceName |-> service_name,
     observedGeneration |->
        IF generation.t # "none" THEN generation.i
        ELSE status.observedGeneration]

(***************************************************************************)
(* The operator: one Function, "f", and the passes of reconcile_function   *)
(* over it.  A pass is a sequence of orchestration calls; between two      *)
(* calls the Function's spec may change and anyone may delete a derived    *)
(* object.                                                                 *)
(***************************************************************************)
\* bounds of the operator's model
MaxGeneration == 2
MaxOpFaults == 1
MaxOpDeletes == 1

OpFunction == "f"
Owner == [name |-> OpFunction, uid |-> "uid-f"]

FunctionSpec(code, runtime, min_replicas, max_replicas) ==
    [code |-> code, runtime |-> runtime,
     minReplicas |-> min_replicas, maxReplicas |-> max_replicas]

\* specs that pass validation: scale to zero and no autoscaler (0..1), an
\* autoscaler (1..2)
ValidSpecs ==
    {FunctionSpec(StrV("x"), StrV("python3.9"), Absent, IntV(1)),
     FunctionSpec(StrV("x"), StrV("python3.9"), IntV(1), IntV(2))}

\* a spec that does not: min > max
InvalidSpecs ==
    {FunctionSpec(StrV("x"), StrV("python3.9"), IntV(2), IntV(1))}

OpSpecs == ValidSpecs \cup InvalidSpecs

DefaultSpec == FunctionSpec(StrV("x"), StrV("python3.9"), Absent, IntV(1))

\* the address the platform assigns to a new Service
ClusterIps == {"10.0.0.1"}

Handlers == {"on_create", "on_update", "on_resume"}

Kinds == {"cm", "deploy", "svc", "hpa"}

NoStatus ==
    [phase |-> "", reason |-> "", deploymentName |-> "", serviceName |-> "",
     observedGeneration |-> 0]

NoSent == [k \in Kinds |-> NoBody]

NoObjects == [cm |-> NoObj, svc |-> NoObj, hpa |-> NoObj]

\* no handler is running
IdleRec ==
    [pc |-> "idle", kind |-> "none", retry_delay |-> 0, spec |-> DefaultSpec,
     generation |-> 0, body |-> NoBody, sent |-> NoSent, calls |-> 0]

\* what is kept of the pass that ended last: how it ended, the spec and
\* generation it ran on, the bodies it sent, the number of its orchestration
\* calls, and the number (1, 2 or more) of successful passes in a row on this
\* spec and generation that it completes
NoPass ==
    [outcome |-> "none", delay |-> 0, spec |-> DefaultSpec,
     generation |-> 0, sent |-> NoSent, calls |-> 0, streak |-> 0]

Streak(r, outcome) ==
    IF outcome # "ok" THEN 0
    ELSE IF /\ lastPass.outcome = "ok"
            /\ lastPass.spec = r.spec
            /\ lastPass.generation = r.generation
         THEN 2
         ELSE 1

Names == get_resource_names(OpFunction)

\* the cluster's object of a kind, as a read sees it
Existing(kind) ==
    IF kind = "deploy" THEN deploy[Names.deployment] ELSE objects[kind]

\* reconcile_function lines 511-545: the body built for each upsert; every
\* upsert returns the name of the body it was given
BodyFor(kind, spec) ==
    CASE kind = "cm" ->
            build_configmap_body(Names.configmap, GetOrNone(spec.code), Owner)
      [] kind = "deploy" ->
            build_deployment_body(Names.deployment, spec, Names.configmap, Owner)
      [] kind = "svc" ->
            build_service_body(Names.service, Owner)
      [] OTHER ->
            build_hpa_body(Names.deployment \o "-hpa", spec, Names.deployment, Owner)

\* the outcomes of a read or patch of the object, and of its creation
OpCallOutcomes(kind, phase) ==
    (IF phase = "create"
     THEN (IF Existing(kind).exists THEN {"fail"} ELSE {"ok"})
     ELSE (IF Existing(kind).exists THEN {"ok"} ELSE {"404"}))
        \cup (IF opFaults < MaxOpFaults THEN {"fail"} ELSE {})

\* the except clauses of the upserts (lines 286-307, 327-348, 373-394,
\* 463-468): what a failed call leads to.  A 404, from the read or from the
\* patch, leads to create; any other failure of read or patch is a
\* TemporaryError; a failed create is one too, but upsert_hpa lets the
\* ApiException of its create escape.
UpsertOnFailure(kind, phase, r) ==
    IF phase # "create" /\ r = "404" THEN "create"
    ELSE IF phase = "create" /\ kind = "hpa" THEN "ApiException"
    ELSE "TemporaryError"

\* the delay of the TemporaryError a handler raises (lines 631, 668, 705);
\* all a pass keeps of the handler that runs it
RetryDelay(handler) ==
    IF handler = "on_resume" THEN ResumeRetryDelay ELSE HandlerRetryDelay

\* mutant: the handlers have no `except kopf.PermanentError` clause
HandlerRaises_always_temporary(retry_delay, exc) ==
    [outcome |-> "TemporaryError", delay |-> retry_delay]

\* the except clauses of on_create, on_update, on_resume: a PermanentError is
\* re-raised, anything else becomes a TemporaryError with the handler's delay
HandlerRaises(retry_delay, exc) ==
    IF exc = "PermanentError"
    THEN [outcome |-> "PermanentError", delay |-> 0]
    ELSE [outcome |-> "TemporaryError", delay |-> retry_delay]

\* the handler ends: kopf gets its result, the next event finds it idle
EndPass(r, outcome, delay) ==
    /\ lastPass' = [outcome |-> outcome,
                    delay |-> delay, spec |-> r.spec,
                    generation |-> r.generation, sent |-> r.sent,
                    calls |-> r.calls, streak |-> Streak(r, outcome)]
    /\ rec' = IdleRec

\* mutant: a failed pass reports itself in the status
FailPass_writes_status(r, exc) ==
    LET h == HandlerRaises(r.retry_delay, exc) IN
    /\ EndPass(r, h.outcome, h.delay)
    /\ fn' = [fn EXCEPT !.status.phase = "Failed", !.status.reason = exc]

\* an exception leaves reconcile_function through the handler
FailPass(r, exc) ==
    LET h == HandlerRaises(r.retry_delay, exc) IN
    /\ EndPass(r, h.outcome, h.delay)
    /\ UNCHANGED fn

\* lines 548-572: update_status with the names and the generation of the
\* handler's body, then return
FinishPass(r) ==
    /\ fn' = [fn EXCEPT !.status =
                update_status(@, "Ready", "None", Names.deployment,
                              Names.service, IntV(r.generation))]
    /\ EndPass(r, "ok", 0)

\* mutant: the endpoint is upserted before the workload
AfterUpsert_endpoint_first(r) ==
    CASE r.kind = "cm" ->
            /\ rec' = [r EXCEPT !.pc = "read", !.kind = "svc",
                                !.body = BodyFor("svc", r.spec)]
            /\ UNCHANGED <<fn, lastPass>>
      [] r.kind = "svc" ->
            /\ rec' = [r EXCEPT !.pc = "read", !.kind = "deploy",
                                !.body = BodyFor("deploy", r.spec)]
            /\ UNCHANGED <<fn, lastPass>>
      [] r.kind = "deploy" /\ HpaEnabled(r.spec) ->
            /\ rec' = [r EXCEPT !.pc = "read", !.kind = "hpa",
                                !.body = BodyFor("hpa", r.spec)]
            /\ UNCHANGED <<fn, lastPass>>
      [] OTHER -> FinishPass(r)

\* what follows a successful upsert in reconcile_function
AfterUpsert(r) ==
    CASE r.kind = "cm" ->
            /\ rec' = [r EXCEPT !.pc = "read", !.kind = "deploy",
                                !.body = BodyFor("deploy", r.spec)]
            /\ UNCHANGED <<fn, lastPass>>
      [] r.kind = "deploy" ->
            /\ rec' = [r EXCEPT !.pc = "read", !.kind = "svc",
                                !.body = BodyFor("svc", r.spec)]
            /\ UNCHANGED <<fn, lastPass>>
      [] r.kind = "svc" /\ HpaEnabled(r.spec) ->
            /\ rec' = [r EXCEPT !.pc = "read", !.kind = "hpa",
                                !.body = BodyFor("hpa", r.spec)]
            /\ UNCHANGED <<fn, lastPass>>
      [] OTHER -> FinishPass(r)

\* a create, update or resume event: the handler gets the spec and the
\* generation of that moment and calls reconcile_function, which validates
\* (line 505) and builds the ConfigMap's body
handler_start(h) ==
    /\ rec.pc = "idle"
    /\ LET r == [IdleRec EXCEPT !.retry_delay = RetryDelay(h),
                                !.spec = fn.spec,
                                !.generation = fn.generation]
       IN  IF validate_spec(fn.spec) # "ok"
           THEN FailPass(r, "PermanentError")
           ELSE /\ rec' = [r EXCEPT !.pc = "read", !.kind = "cm",
                                    !.body = BodyFor("cm", fn.spec)]
                /\ UNCHANGED <<fn, lastPass>>
    /\ UNCHANGED <<deploy, objects, opFaults, opDeletes>>
    /\ UNCHANGED gwVars

\* mutant: the body is patched as it was built
keep_cluster_ip_never(kind, body) == body

\* upsert_service lines 366-369: the address of the Service that was read is
\* written into the body before the patch
keep_cluster_ip(kind, body) ==
    IF kind = "svc" /\ Existing("svc").cluster_ip # NoIp
    THEN [body EXCEPT !.cluster_ip = Existing("svc").cluster_ip]
    ELSE body

\* the read of an upsert (lines 283, 324, 366-369, 460)
upsert_read ==
    /\ rec.pc = "read"
    /\ \E o \in OpCallOutcomes(rec.kind, "read") :
          LET r == [rec EXCEPT !.calls = @ + 1] IN
          /\ opFaults' = IF o = "fail" THEN opFaults + 1 ELSE opFaults
          /\ IF o = "ok"
             THEN /\ rec' = [r EXCEPT
                               !.pc = "patch",
                               !.body = keep_cluster_ip(r.kind, @)]
                  /\ UNCHANGED <<fn, lastPass>>
             ELSE IF UpsertOnFailure(r.kind, "read", o) = "create"
             THEN /\ rec' = [r EXCEPT !.pc = "create"]
                  /\ UNCHANGED <<fn, lastPass>>
             ELSE FailPass(r, UpsertOnFailure(r.kind, "read", o))
    /\ UNCHANGED <<deploy, objects, opDeletes>>
    /\ UNCHANGED gwVars

\* the cluster after a patch with this body: the fields the body names are
\* overwritten
Patched(kind, body) ==
    IF kind = "deploy"
    THEN [deploy |-> [deploy EXCEPT ![Names.deployment] =
                        [@ EXCEPT !.replicas = body.replicas, !.body = body]],
          objects |-> objects]
    ELSE [deploy |-> deploy,
          objects |-> [objects EXCEPT ![kind] = [@ EXCEPT !.body = body]]]

\* mutant: the create is acknowledged and nothing is stored
Created_dropped(kind, body, ip) == [deploy |-> deploy, objects |-> objects]

\* the cluster after a create with this body; a Service gets the address
\* the body asks for, or one the platform picks
Created(kind, body, ip) ==
    IF kind = "deploy"
    THEN [deploy |-> [deploy EXCEPT ![Names.deployment] =
                        [exists |-> TRUE, replicas |-> body.replicas,
                         ready |-> 0, body |-> body]],
          objects |-> objects]
    ELSE [deploy |-> deploy,
          objects |-> [objects EXCEPT ![kind] =
                        [exists |-> TRUE, body |-> body,
                         cluster_ip |->
                            IF kind # "svc" THEN NoIp
                            ELSE IF body.cluster_ip # NoIp THEN body.cluster_ip
                            ELSE ip]]]

\* the patch of an upsert (lines 285, 326, 372, 462)
upsert_patch ==
    /\ rec.pc = "patch"
    /\ \E o \in OpCallOutcomes(rec.kind, "patch") :
          LET r == [rec EXCEPT !.calls = @ + 1] IN
          /\ opFaults' = IF o = "fail" THEN opFaults + 1 ELSE opFaults
          /\ IF o = "ok"
             THEN /\ deploy' = Patched(r.kind, r.body).deploy
                  /\ objects' = Patched(r.kind, r.body).objects
                  /\ AfterUpsert([r EXCEPT !.sent[r.kind] = r.body])
             ELSE /\ UNCHANGED <<deploy, objects>>
                  /\ IF UpsertOnFailure(r.kind, "patch", o) = "create"
                     THEN /\ rec' = [r EXCEPT !.pc = "create"]
                          /\ UNCHANGED <<fn, lastPass>>
                     ELSE FailPass(r, UpsertOnFailure(r.kind, "patch", o))
    /\ UNCHANGED opDeletes
    /\ UNCHANGED gwVars

\* the create of an upsert (lines 290, 331, 377, 466)
upsert_create ==
    /\ rec.pc = "create"
    /\ \E o \in OpCallOutcomes(rec.kind, "create"), ip \in ClusterIps :
          LET r == [rec EXCEPT !.calls = @ + 1] IN
          /\ opFaults' = IF o = "fail" THEN opFaults + 1 ELSE opFaults
          /\ IF o = "ok"
             THEN /\ deploy' = Created(r.kind, r.body, ip).deploy
                  /\ objects' = Created(r.kind, r.body, ip).objects
                  /\ AfterUpsert([r EXCEPT !.sent[r.kind] = r.body])
             ELSE /\ UNCHANGED <<deploy, objects>>
                  /\ FailPass(r, UpsertOnFailure(r.kind, "create", o))
    /\ UNCHANGED opDeletes
    /\ UNCHANGED gwVars

(***************************************************************************)
(* The environment of the operator.                                        *)
(***************************************************************************)

\* the user edits the Function's spec; the platform bumps the generation
UpdateSpec(spec) ==
    /\ fn.generation < MaxGeneration
    /\ spec # fn.spec
    /\ fn' = [fn EXCEPT !.spec = spec, !.generation = @ + 1]
    /\ UNCHANGED <<deploy, objects, rec, lastPass, opFaults, opDeletes>>
    /\ UNCHANGED gwVars

\* someone deletes a derived object
DeleteDerived(kind) ==
    /\ opDeletes < MaxOpDeletes
    /\ Existing(kind).exists
    /\ IF kind = "deploy"
       THEN /\ deploy' = [deploy EXCEPT ![Names.deployment] = NoObj]
            /\ UNCHANGED objects
       ELSE /\ objects' = [objects EXCEPT ![kind] = NoObj]
            /\ UNCHANGED deploy
    /\ opDeletes' = opDeletes + 1
    /\ UNCHANGED <<fn, rec, lastPass, opFaults>>
    /\ UNCHANGED gwVars

\* the operator has started; the Function exists, nothing is derived yet
OperatorIdle ==
    /\ objects = NoObjects
    /\ rec = IdleRec
    /\ lastPass = NoPass
    /\ opFaults = 0
    /\ opDeletes = 0

GatewayIdle ==
    /\ function_locks = [n \in FunctionNames |-> NoLock]
    /\ call = [c \in Callers |-> IdleCall]
    /\ faults = 0
    /\ deletes = 0
    /\ http = IdleHttp
    /\ wait = IdleWait

OperatorInit ==
    /\ GatewayIdle
    /\ OperatorIdle
    /\ deploy = [w \in WorkloadNames |-> NoObj]
    /\ fn \in [spec : OpSpecs, generation : {1}, status : {NoStatus}]

OperatorNext ==
    \/ \E h \in Handlers : handler_start(h)
    \/ upsert_read
    \/ upsert_patch
    \/ upsert_create
    \/ \E spec \in OpSpecs : UpdateSpec(spec)
    \/ \E kind \in Kinds : DeleteDerived(kind)

OperatorSpec == OperatorInit /\ [][OperatorNext]_vars

(***************************************************************************)
(* Validation: a handler is invoked on a Function whose spec fields hold   *)
(* any value the API server can deliver.                                   *)
(***************************************************************************)
CodeValues ==
    {Absent, None, StrV(""), StrV(" "), StrV("x"), StrV(" x "), IntV(1)}

RuntimeValues == {Absent, StrV(""), StrV(" "), StrV("python3.9")}

ReplicaValues ==
    {Absent, None, IntV(-1), IntV(0), IntV(1), IntV(2),
     BoolV(FALSE), BoolV(TRUE), Float15, StrV("1")}

AnySpecs ==
    {FunctionSpec(c, r, mn, mx) :
        c \in CodeValues, r \in RuntimeValues,
        mn \in ReplicaValues, mx \in ReplicaValues}

ValidationInit ==
    /\ GatewayIdle
    /\ OperatorIdle
    /\ deploy = [w \in WorkloadNames |-> NoObj]
    /\ fn \in [spec : AnySpecs, generation : {1}, status : {NoStatus}]

ValidationNext == \E h \in Handlers : handler_start(h)

ValidationSpec == ValidationInit /\ [][ValidationNext]_vars

(***************************************************************************)
(* Reconciling a fixed spec: the Function holds any spec that passes       *)
(* validate_spec and is not edited; nobody else touches the derived        *)
(* objects; orchestration calls may fail, and the handlers run again.      *)
(***************************************************************************)
AcceptedSpecs == {spec \in AnySpecs : validate_spec(spec) = "ok"}

ReconcileInit ==
    /\ GatewayIdle
    /\ objects = NoObjects
    /\ rec = IdleRec
    /\ lastPass = NoPass
    /\ opFaults = 0
    /\ opDeletes = MaxOpDeletes
    /\ deploy = [w \in WorkloadNames |-> NoObj]
    /\ fn \in [spec : AcceptedSpecs, generation : {1}, status : {NoStatus}]

ReconcileNext ==
    \/ \E h \in Handlers : handler_start(h)
    \/ upsert_read
    \/ upsert_patch
    \/ upsert_create

ReconcileSpec == ReconcileInit /\ [][ReconcileNext]_vars

\* the gateway has started; "fn-f-deploy" exists and is cold, "fn-g-deploy"
\* exists and is warm, "fn-ghost-deploy" does not exist
InitWorkloads ==
    [w \in WorkloadNames |->
        CASE w = "fn-f-deploy" -> Workload(0, 0)
          [] w = "fn-g-deploy" -> Workload(1, 1)
          [] OTHER -> NoObj]

GatewayInit ==
    /\ GatewayIdle
    /\ deploy = InitWorkloads
    /\ OperatorIdle
    /\ fn = [spec |-> DefaultSpec, generation |-> 1, status |-> NoStatus]

GatewayNext ==
    \/ \E c \in Callers, n \in FunctionNames : invoke_function(c, n)
    \/ \E c \in Callers : lock_acquire_resume(c)
    \/ \E c \in Callers : _ensure_scaled_read(c)
    \/ \E c \in Callers : _scale_deployment_to_one(c)
    \/ \E c \in Callers : _wait_for_pod_ready_read(c)
    \/ \E c \in Callers : _wait_for_pod_ready_wake(c)
    \/ \E c \in Callers : _proxy_to_function_service(c)
    \/ \E w \in WorkloadNames : PodReady(w)
    \/ \E w \in WorkloadNames : DeleteWorkload(w)
    \/ Tick

GatewaySpec == GatewayInit /\ [][GatewayNext]_vars

\* the steps of an invocation that has arrived
CallerRuns(c) ==
    \/ lock_acquire_resume(c)
    \/ _ensure_scaled_read(c)
    \/ _scale_deployment_to_one(c)
    \/ _wait_for_pod_ready_read(c)
    \/ _wait_for_pod_ready_wake(c)
    \/ _proxy_to_function_service(c)

\* requests for the cold function "f" and for "ghost", which has no
\* workload; orchestration calls may fail and "f" may be deleted
FairGatewayNext ==
    \/ \E c \in Callers, n \in {"f", "ghost"} : invoke_function(c, n)
    \/ \E c \in Callers : CallerRuns(c)
    \/ PodReady("fn-f-deploy")
    \/ DeleteWorkload("fn-f-deploy")
    \/ Tick

\* the gateway under its event loop: every coroutine that can run is run,
\* every orchestration call returns, and time passes
FairGatewaySpec ==
    /\ GatewayInit
    /\ [][FairGatewayNext]_vars
    /\ \A c \in Callers : WF_vars(CallerRuns(c))
    /\ WF_vars(Tick)

(***************************************************************************)
(* Single flight: every request is for "f", whose workload exists and is   *)
(* cold; the orchestration API answers every call and the workload is not  *)
(* deleted.  The pod becomes ready at any time, or never.  The event loop  *)
(* runs every coroutine that can run, and time passes.                     *)
(***************************************************************************)
SingleFlightInit ==
    /\ function_locks = [n \in FunctionNames |-> NoLock]
    /\ call = [c \in Callers |-> IdleCall]
    /\ deploy = InitWorkloads
    /\ faults = MaxFaults
    /\ deletes = MaxDeletes
    /\ http = IdleHttp
    /\ wait = IdleWait
    /\ OperatorIdle
    /\ fn = [spec |-> DefaultSpec, generation |-> 1, status |-> NoStatus]

CallerStep(c) ==
    \/ invoke_function(c, "f")
    \/ lock_acquire_resume(c)
    \/ _ensure_scaled_read(c)
    \/ _scale_deployment_to_one(c)
    \/ _wait_for_pod_ready_read(c)
    \/ _wait_for_pod_ready_wake(c)
    \/ _proxy_to_function_service(c)

SingleFlightNext ==
    \/ \E c \in Callers : CallerStep(c)
    \/ PodReady("fn-f-deploy")
    \/ Tick

SingleFlightSpec ==
    /\ SingleFlightInit
    /\ [][SingleFlightNext]_vars
    /\ \A c \in Callers : WF_vars(CallerStep(c))
    /\ WF_vars(Tick)

(***************************************************************************)
(* Gateway and operator on one cluster: the operator reconciles the        *)
(* Function "f" (scale to zero, no autoscaler), whose spec is not edited,  *)
(* while requests for "f" arrive at the gateway.  Both act on the          *)
(* Deployment "fn-f-deploy".  No orchestration call fails and nothing is   *)
(* deleted.                                                                *)
(***************************************************************************)
PlatformInit ==
    /\ function_locks = [n \in FunctionNames |-> NoLock]
    /\ call = [c \in Callers |-> IdleCall]
    /\ objects = NoObjects
    /\ rec = IdleRec
    /\ lastPass = NoPass
    /\ faults = MaxFaults
    /\ deletes = MaxDeletes
    /\ opFaults = MaxOpFaults
    /\ opDeletes = MaxOpDeletes
    /\ http = IdleHttp
    /\ wait = IdleWait
    /\ deploy = [w \in WorkloadNames |-> NoObj]
    /\ fn = [spec |-> DefaultSpec, generation |-> 1, status |-> NoStatus]

PlatformNext ==
    \/ \E h \in Handlers : handler_start(h)
    \/ upsert_read
    \/ upsert_patch
    \/ upsert_create
    \/ \E c \in Callers : CallerStep(c)
    \/ PodReady("fn-f-deploy")
    \/ Tick

PlatformSpec == PlatformInit /\ [][PlatformNext]_vars

(***************************************************************************)
(* One request through the gateway: any request of the bounded set has    *)
(* arrived; the router, invoke_function and the proxy handle it.           *)
(***************************************************************************)
ProxyInit ==
    /\ function_locks = [n \in FunctionNames |-> NoLock]
    /\ call = [c \in Callers |-> IdleCall]
    /\ faults = 0
    /\ deletes = 0
    /\ deploy = InitWorkloads
    /\ OperatorIdle
    /\ fn = [spec |-> DefaultSpec, generation |-> 1, status |-> NoStatus]
    /\ http \in [pc : {"received"}, request : Requests, function_name : {""},
                 outbound : {NoRequest}, response : {NoResponse}]
    /\ wait = IdleWait

ProxyNext ==
    \/ route_invoke
    \/ invoke_ensure
    \/ proxy_send
    \/ proxy_return

ProxySpec == ProxyInit /\ [][ProxyNext]_vars

(***************************************************************************)
(* One _wait_for_pod_ready under any of the settings, each read giving any *)
(* outcome.                                                                *)
(***************************************************************************)
PollInit ==
    /\ function_locks = [n \in FunctionNames |-> NoLock]
    /\ call = [c \in Callers |-> IdleCall]
    /\ faults = 0
    /\ deletes = 0
    /\ deploy = InitWorkloads
    /\ OperatorIdle
    /\ fn = [spec |-> DefaultSpec, generation |-> 1, status |-> NoStatus]
    /\ http = IdleHttp
    /\ wait \in [pc : {"loop"}, interval : IntervalSettings,
                 timeout : TimeoutSettings, total : {Zero}, reads : {0},
                 slept : {0}, status : {0}]

PollNext ==
    \/ poll_loop_test
    \/ poll_read
    \/ poll_sleep

PollSpec == PollInit /\ [][PollNext]_vars /\ WF_vars(PollNext)

(***************************************************************************)
(* The operator resumes on a Function whose Service exists already, with   *)
(* the address the platform gave it then.  Orchestration calls succeed;    *)
(* derived objects may be deleted by someone else.                         *)
(***************************************************************************)
\* addresses a Service of an earlier run may hold
AssignedIps == ClusterIps \cup {"10.0.0.9"}

EndpointInit ==
    /\ GatewayIdle
    /\ rec = IdleRec
    /\ lastPass = NoPass
    /\ opFaults = MaxOpFaults
    /\ opDeletes = 0
    /\ deploy = [w \in WorkloadNames |-> NoObj]
    /\ fn \in [spec : ValidSpecs, generation : {1}, status : {NoStatus}]
    /\ \E ip \in AssignedIps :
          objects = [NoObjects EXCEPT
                        !.svc = [exists |-> TRUE,
                                 body |-> BodyFor("svc", fn.spec),
                                 cluster_ip |-> ip]]

EndpointNext ==
    \/ \E h \in Handlers : handler_start(h)
    \/ upsert_read
    \/ upsert_patch
    \/ upsert_create
    \/ \E kind \in Kinds : DeleteDerived(kind)

EndpointSpec == EndpointInit /\ [][EndpointNext]_vars

(***************************************************************************)
(* Requests for "f" while its workload is starting: the Deployment exists  *)
(* with any desired replica count up to MaxDesired (the operator creates   *)
(* it with replicas = minReplicas) and no replica is ready yet.            *)
(***************************************************************************)
MaxDesired == 3

StartingInit ==
    /\ function_locks = [n \in FunctionNames |-> NoLock]
    /\ call = [c \in Callers |-> IdleCall]
    /\ faults = MaxFaults
    /\ deletes = MaxDeletes
    /\ http = IdleHttp
    /\ wait = IdleWait
    /\ OperatorIdle
    /\ fn = [spec |-> DefaultSpec, generation |-> 1, status |-> NoStatus]
    /\ \E desired \in 0..MaxDesired :
          deploy = [InitWorkloads EXCEPT
                      !["fn-f-deploy"] = Workload(desired, 0)]

StartingNext ==
    \/ \E c \in Callers : CallerStep(c)
    \/ PodReady("fn-f-deploy")
    \/ Tick

StartingSpec == StartingInit /\ [][StartingNext]_vars

(***************************************************************************)
(* Properties of the gateway.                                              *)
(***************************************************************************)

\* the workload an invocation is about
WorkloadOf(c) == _deployment_name_from_function(call[c].fn)

\* the invocations that have arrived with exactly this function name
CallsNamed(n) == {c \in Callers : call[c].pc # "idle" /\ call[c].fn = n}

\* the invocations that have arrived for this workload
CallsOn(w) == {c \in Callers : call[c].pc # "idle" /\ WorkloadOf(c) = w}

\* inside the section that re-reads, patches and polls
InSection(c) == call[c].pc \in {"read", "scale", "poll", "sleep"}

\* _ensure_scaled has ended for this invocation
Settled(c) == call[c].pc \in {"proxy", "done"}

RECURSIVE SumPatches(_)
SumPatches(S) ==
    IF S = {} THEN 0
    ELSE LET c == CHOOSE x \in S : TRUE
         IN  call[c].patches + SumPatches(S \ {c})

\* scale patches the cluster has accepted for this workload
Patches(w) == SumPatches(CallsOn(w))

NoCallRaised(w) == \A c \in CallsOn(w) : call[c].ensure # "raised"

AllCallsSucceeded == \A c \in Callers : call[c].ensure = "ok"

\* the ceiling of _wait_for_pod_ready, in whole poll intervals
PollRounds ==
    (POLL_TIMEOUT_SECONDS + POLL_INTERVAL_SECONDS - 1) \div POLL_INTERVAL_SECONDS

C2_MutualExclusion ==
    \A n \in FunctionNames :
        LET inside == {c \in CallsNamed(n) : InSection(c)} IN
        /\ Cardinality(inside) <= 1
        /\ inside # {} => function_locks[n].locked
        /\ \A c \in CallsNamed(n) \ inside :
              \/ /\ call[c].pc \in {"waiting", "woken"}
                 /\ \E i \in 1..Len(function_locks[n].waiters) :
                        function_locks[n].waiters[i] = c
              \/ Settled(c)

\* one caller of "f" sleeps in the poll while every other caller is queued
\* behind it
C2_Witness ==
    \E c \in Callers :
        /\ call[c].fn = "f"
        /\ call[c].pc = "sleep"
        /\ Len(function_locks["f"].waiters) = NumCallers - 1
        /\ NumCallers >= 2

\* C3 - double-check short-circuit.  A caller holding the lock whose re-read
\* succeeds with a ready count >= 1 returns success in that step: no scale
\* patch (the workload is left alone), no readiness poll.
C3_ShortCircuit ==
    [][\A c \in Callers :
          ( /\ call[c].pc = "read"
            /\ call'[c].pc # "read"
            /\ faults' = faults
            /\ deploy[WorkloadOf(c)].exists
            /\ deploy[WorkloadOf(c)].ready >= 1 )
          => /\ call'[c].pc = "proxy"
             /\ call'[c].ensure = "ok"
             /\ call'[c].patches = 0
             /\ call'[c].total = 0
             /\ call'[c].sleep = 0
             /\ deploy' = deploy]_vars

\* a caller of the cold function "f" returned success without patching
C3_Witness ==
    \E c \in Callers :
        /\ call[c].fn = "f"
        /\ call[c].ensure = "ok"
        /\ call[c].patches = 0

\* C4 - timeout.  The poll reads only while the time slept is below the
\* ceiling; when the sleep that reaches the ceiling ends, _ensure_scaled
\* raises Timeout, invoke_function answers 504 and nothing was or will be
\* forwarded; a 504 arises in no other way.
C4_Timeout ==
    /\ [](\A c \in Callers :
            /\ call[c].pc \in {"poll", "sleep"}
                  => call[c].total < POLL_TIMEOUT_SECONDS /\ call[c].patches = 1
            /\ call[c].status = StatusTimeout
                  => /\ call[c].pc = "done"
                     /\ call[c].ensure = "raised"
                     /\ call[c].sent = 0)
    /\ [][\A c \in Callers :
            /\ ( /\ call[c].pc = "sleep"
                 /\ call'[c].pc # "sleep"
                 /\ call[c].total + POLL_INTERVAL_SECONDS >= POLL_TIMEOUT_SECONDS )
               => call'[c].status = StatusTimeout
            /\ ( call'[c].status = StatusTimeout /\ call[c].status # StatusTimeout )
               => /\ call[c].pc = "sleep"
                  /\ call[c].total + POLL_INTERVAL_SECONDS >= POLL_TIMEOUT_SECONDS]_vars

\* an invocation of an existing workload ended with 504
C4_Witness ==
    \E c \in Callers :
        /\ call[c].pc = "done"
        /\ call[c].status = StatusTimeout
        /\ deploy[WorkloadOf(c)].exists
        /\ deploy[WorkloadOf(c)].ready = 0

\* C5 - missing function.  An orchestration call of _ensure_scaled that
\* finds no workload ends the invocation in that step with NotFound and
\* status 404, nothing patched and nothing forwarded; an invocation that has
\* ended takes no further step (no retry).
C5_NotFound ==
    [][\A c \in Callers :
          /\ ( /\ call[c].pc \in {"read", "scale", "poll"}
               /\ call'[c].pc # call[c].pc
               /\ faults' = faults
               /\ ~deploy[WorkloadOf(c)].exists )
             => /\ call'[c].pc = "done"
                /\ call'[c].ensure = "raised"
                /\ call'[c].status = StatusNotFound
                /\ call'[c].sent = 0
                /\ call'[c].patches = call[c].patches
                /\ deploy' = deploy
          /\ call[c].pc = "done" => call'[c] = call[c]]_vars

\* the invocation of "ghost" ended with 404, and one whose workload was
\* deleted under it did too
C5_Witness ==
    /\ \E c \in Callers :
          /\ call[c].fn = "ghost"
          /\ call[c].pc = "done"
          /\ call[c].status = StatusNotFound
    /\ \E c \in Callers :
          /\ call[c].fn # "ghost"
          /\ call[c].pc = "done"
          /\ call[c].status = StatusNotFound

\* C6 - gateway sequencing.  The outbound request is sent only after the
\* invocation's own _ensure_scaled returned success; after NotFound, Timeout
\* or an orchestration error none is sent; one invocation issues at most one
\* scale patch and at most one outbound request.
C6_Sequencing ==
    \A c \in Callers :
        /\ call[c].pc = "proxy" => call[c].ensure = "ok" /\ call[c].sent = 0
        /\ call[c].sent >= 1 => call[c].ensure = "ok" /\ call[c].pc = "done"
        /\ call[c].ensure = "raised"
              => /\ call[c].sent = 0
                 /\ call[c].pc = "done"
                 /\ call[c].status \in {StatusNotFound, StatusBadGateway, StatusTimeout}
        /\ call[c].pc = "done" /\ call[c].ensure = "ok" => call[c].sent = 1
        /\ call[c].sent <= 1
        /\ call[c].patches <= 1

\* one invocation patched, succeeded and was forwarded once; another failed
\* and was not forwarded
C6_Witness ==
    /\ \E c \in Callers :
          call[c].pc = "done" /\ call[c].patches = 1 /\ call[c].sent = 1
    /\ \E c \in Callers :
          call[c].pc = "done" /\ call[c].ensure = "raised" /\ call[c].sent = 0

\* C7 - the gateway never hangs past the configured timeout.  Every
\* invocation, queued or not, has left _ensure_scaled no later than the
\* polling ceiling (in whole poll intervals) after it arrived.
C7_BoundedWait ==
    \A c \in Callers :
        call[c].elapsed <= PollRounds * POLL_INTERVAL_SECONDS

(***************************************************************************)
(* Properties of the operator.                                             *)
(***************************************************************************)

\* two bodies that differ at most in the Service's cluster-internal address
SameButClusterIp(a, b) ==
    IF a.kind = "Service" /\ b.kind = "Service"
    THEN [a EXCEPT !.cluster_ip = NoIp] = [b EXCEPT !.cluster_ip = NoIp]
    ELSE a = b

\* a reconcile pass ends in this step
PassEnds == rec.pc # "idle" /\ rec'.pc = "idle"

\* C8 - idempotence.  A pass that succeeds leaves status.observedGeneration
\* equal to the generation it was given; a pass that succeeds right after a
\* successful pass on the same spec and generation has sent the same
\* ConfigMap, Deployment and (if and only if gated in) autoscaler body, and a
\* Service body that differs from the earlier one at most in the
\* cluster-internal address copied from the existing Service.
C8_Idempotence ==
    [][(PassEnds /\ lastPass'.outcome = "ok") =>
          /\ fn'.status.observedGeneration = lastPass'.generation
          /\ lastPass'.sent.hpa # NoBody <=> HpaEnabled(lastPass'.spec)
          /\ lastPass'.streak = 2 =>
                \A k \in Kinds :
                    SameButClusterIp(lastPass'.sent[k], lastPass.sent[k])]_vars

\* C8 as the specification words it: the second pass sends bodies identical
\* to the first pass's
C8_Original ==
    [][(PassEnds /\ lastPass'.outcome = "ok" /\ lastPass'.streak = 2) =>
          /\ fn'.status.observedGeneration = lastPass'.generation
          /\ lastPass'.sent = lastPass.sent]_vars

\* a second pass in a row succeeded on a spec with an autoscaler, the
\* Service already there
C8_Witness ==
    /\ lastPass.outcome = "ok"
    /\ lastPass.streak = 2
    /\ lastPass.sent.hpa # NoBody
    /\ lastPass.sent.svc.cluster_ip # NoIp
    /\ fn.status.observedGeneration = lastPass.generation

\* the conditions of the specification on a spec: code non-empty, runtime
\* non-empty, maxReplicas present and an integer >= 1, minReplicas (0 when
\* absent) an integer >= 0, minReplicas <= maxReplicas
SpecConditions(spec) ==
    LET min_replicas == Get(spec.minReplicas, IntV(0)) IN
    /\ spec.code.t = "str" /\ spec.code.s # ""
    /\ spec.runtime.t = "str" /\ spec.runtime.s # ""
    /\ spec.maxReplicas.t = "int" /\ spec.maxReplicas.i >= 1
    /\ min_replicas.t = "int" /\ min_replicas.i >= 0
    /\ min_replicas.i <= spec.maxReplicas.i

\* C9 - validation.  validate_spec raises PermanentError exactly for the
\* specs that violate one of the conditions: a pass that ended with
\* PermanentError ran on a spec that violates one, a pass that went on to its
\* first upsert runs on a spec that satisfies all.
C9_Validation ==
    /\ lastPass.outcome = "PermanentError" => ~SpecConditions(lastPass.spec)
    /\ rec.pc # "idle" => SpecConditions(rec.spec)

\* C10 - a spec that fails validation.  A handler invoked on such a spec ends
\* in that step with PermanentError, no retry delay, no orchestration call
\* made and no body sent; the cluster's objects and the Function's status
\* are as before; this holds for on_create, on_update and on_resume alike.
\* No pass is ever past validation on a spec that fails it.
C10_PermanentFailure ==
    /\ [](/\ rec.pc # "idle" => validate_spec(rec.spec) = "ok"
          /\ lastPass.outcome = "PermanentError"
                => /\ validate_spec(lastPass.spec) # "ok"
                   /\ lastPass.calls = 0
                   /\ lastPass.sent = NoSent)
    /\ [][\A h \in Handlers :
            (handler_start(h) /\ validate_spec(fn.spec) # "ok")
               => /\ lastPass'.outcome = "PermanentError"
                  /\ lastPass'.delay = 0
                  /\ lastPass'.calls = 0
                  /\ lastPass'.sent = NoSent
                  /\ lastPass'.spec = fn.spec
                  /\ rec'.pc = "idle"
                  /\ fn' = fn
                  /\ objects' = objects
                  /\ deploy' = deploy]_vars

\* a pass on the spec with minReplicas > maxReplicas ended with
\* PermanentError while derived objects of an earlier, valid spec exist
C10_Witness ==
    /\ lastPass.outcome = "PermanentError"
    /\ lastPass.spec \in InvalidSpecs
    /\ lastPass.calls = 0
    /\ objects.cm.exists
    /\ fn.status.phase = "Ready"

\* the gate as the specification words it, on a spec that passed validation
GateWords(spec) ==
    /\ spec.maxReplicas.i > 1
    /\ Get(spec.minReplicas, IntV(0)).i >= 1

\* the autoscaler body the specification describes for this spec
HpaWords(body, spec) ==
    /\ body.kind = "HorizontalPodAutoscaler"
    /\ body.target = "fn-f-deploy"
    /\ body.average_utilization = 50
    /\ body.min_replicas = Max(1, Get(spec.minReplicas, IntV(0)).i)
    /\ body.max_replicas = spec.maxReplicas.i
    /\ 1 <= body.min_replicas
    /\ body.min_replicas <= body.max_replicas

\* C11 - autoscaler gating.  A pass is at its autoscaler upsert only if
\* maxReplicas > 1 and minReplicas >= 1, and then with a body that targets
\* the function's workload at 50% CPU between max(1, minReplicas) and
\* maxReplicas; a pass that ended in success sent an autoscaler body if and
\* only if the gate holds.
C11_Gating ==
    /\ rec.pc # "idle" /\ rec.kind = "hpa"
          => GateWords(rec.spec) /\ HpaWords(rec.body, rec.spec)
    /\ lastPass.outcome = "ok"
          => /\ lastPass.sent.hpa # NoBody <=> GateWords(lastPass.spec)
             /\ lastPass.sent.hpa # NoBody
                   => HpaWords(lastPass.sent.hpa, lastPass.spec)

\* a pass over minReplicas = 2, maxReplicas = 2 sent an autoscaler body
\* with bounds [2, 2]
C11_Witness ==
    /\ lastPass.outcome = "ok"
    /\ lastPass.spec.minReplicas = IntV(2)
    /\ lastPass.sent.hpa # NoBody
    /\ lastPass.sent.hpa.min_replicas = 2

\* C12 - the autoscaler is present only when maxReplicas > 1 and
\* minReplicas >= 1.  Once a pass has ended in success, an autoscaler object
\* exists only if the spec of that pass satisfies the gate, and then with
\* the bounds of that spec.
C12_AutoscalerPresence ==
    (rec.pc = "idle" /\ lastPass.outcome = "ok" /\ objects.hpa.exists)
        => /\ GateWords(lastPass.spec)
           /\ HpaWords(objects.hpa.body, lastPass.spec)

\* C13 - patch race.  In every upsert, when the read found the object and
\* the patch that follows finds it gone, the pass ends in that step with a
\* TemporaryError: nothing is created and no success is reported.
C13_PatchRace ==
    [][( /\ rec.pc = "patch"
         /\ ~Existing(rec.kind).exists
         /\ opFaults' = opFaults
         /\ rec' # rec )
          => /\ rec'.pc = "idle"
             /\ lastPass'.outcome = "TemporaryError"
             /\ objects' = objects
             /\ deploy' = deploy]_vars

\* an orchestration call of the pass fails in this step, other than a read
\* that finds nothing
CallFails ==
    /\ rec.pc \in {"read", "patch", "create"}
    /\ rec' # rec
    /\ \/ opFaults' # opFaults
       \/ rec.pc = "patch" /\ ~Existing(rec.kind).exists

\* C14 - failure classification.  A read, patch or create that fails, a
\* read that finds nothing aside, ends the pass in that step with a
\* TemporaryError whose delay is 30 (60 when on_resume runs the pass); no
\* handler ends in any other kind of failure, and in a PermanentError only
\* on a spec that fails validation.
C14_Classification ==
    /\ [](/\ lastPass.outcome \in {"none", "ok", "TemporaryError", "PermanentError"}
          /\ lastPass.outcome = "PermanentError"
                => validate_spec(lastPass.spec) # "ok")
    /\ [][\A h \in Handlers :
            (handler_start(h) /\ rec'.pc # "idle")
                => rec'.retry_delay = IF h = "on_resume" THEN 60 ELSE 30]_vars
    /\ [][CallFails
            => /\ rec'.pc = "idle"
               /\ lastPass'.outcome = "TemporaryError"
               /\ lastPass'.delay = rec.retry_delay
               /\ lastPass'.delay \in {30, 60}]_vars

\* the derived object of this kind is what one successful pass over the spec
\* leaves in an empty namespace: the body built from the spec, the Service
\* with an address assigned
AsFirstPass(kind, spec) ==
    /\ Existing(kind).exists
    /\ SameButClusterIp(Existing(kind).body, BodyFor(kind, spec))
    /\ kind = "svc" => Existing(kind).cluster_ip \in ClusterIps
    /\ kind = "deploy" =>
          Existing(kind).replicas = Get(spec.minReplicas, IntV(0)).i

\* C15 - convergence on retry.  For a fixed valid spec, whatever passes
\* failed before and whatever they left behind, once a pass has ended in
\* success the ConfigMap, Deployment and Service are those of a single
\* successful pass from an empty namespace, and the autoscaler is that one's
\* too: present with the spec's body if gated in, absent if not.
C15_Convergence ==
    lastPass.outcome = "ok" =>
        /\ \A kind \in {"cm", "deploy", "svc"} : AsFirstPass(kind, lastPass.spec)
        /\ IF GateWords(lastPass.spec)
           THEN AsFirstPass("hpa", lastPass.spec)
           ELSE ~objects.hpa.exists

\* a pass succeeded after one that failed at the autoscaler, having found
\* the Service that the failed pass created
C15_Witness ==
    /\ lastPass.outcome = "ok"
    /\ lastPass.streak = 1
    /\ opFaults >= 1
    /\ lastPass.sent.svc.cluster_ip # NoIp
    /\ lastPass.sent.hpa # NoBody

\* C16 - status.  The status changes only in the step that ends a pass in
\* success, and then to phase Ready, no reason, the names of the derived
\* workload and endpoint, and the generation the pass was given; a pass that
\* ends in a failure leaves the status as it was.
C16_Status ==
    [][/\ fn'.status # fn.status
            => /\ PassEnds
               /\ lastPass'.outcome = "ok"
       /\ (PassEnds /\ lastPass'.outcome = "ok")
            => fn'.status = [phase |-> "Ready", reason |-> "None",
                             deploymentName |-> "fn-f-deploy",
                             serviceName |-> "fn-f-svc",
                             observedGeneration |-> rec.generation]
       /\ (rec' # rec /\ rec'.pc = "idle" /\ lastPass'.outcome # "ok")
            => fn'.status = fn.status]_vars

\* a pass over a later generation failed at an upsert and the status of the
\* earlier successful pass is still there
C16_Witness ==
    /\ lastPass.outcome = "TemporaryError"
    /\ lastPass.calls >= 1
    /\ fn.status.phase = "Ready"
    /\ fn.status.observedGeneration < lastPass.generation

\* the pass that is running is over the spec and generation of the
\* successful pass before it
UnchangedSpec ==
    /\ rec.pc # "idle"
    /\ lastPass.outcome = "ok"
    /\ lastPass.spec = rec.spec
    /\ lastPass.generation = rec.generation

\* C17 - reconciling an unchanged spec is a no-op on the derived objects.
\* No step of a pass over an unchanged spec changes a field of an existing
\* derived object; in particular the Deployment's replica count stays what
\* it was, also when the gateway's scale patch has raised it to 1.
C17_NoOp ==
    [][(UnchangedSpec /\ rec' # rec)
          => /\ deploy'["fn-f-deploy"].exists = deploy["fn-f-deploy"].exists
             /\ deploy["fn-f-deploy"].exists
                   => /\ deploy'["fn-f-deploy"].replicas
                            = deploy["fn-f-deploy"].replicas
                      /\ deploy'["fn-f-deploy"].ready
                            = deploy["fn-f-deploy"].ready
                      /\ deploy'["fn-f-deploy"].body
                            = deploy["fn-f-deploy"].body
             /\ \A k \in {"cm", "svc", "hpa"} :
                   /\ objects'[k].exists = objects[k].exists
                   /\ objects[k].exists
                         => /\ objects'[k].cluster_ip = objects[k].cluster_ip
                            /\ SameButClusterIp(objects'[k].body,
                                                objects[k].body)]_vars

\* the callers other than c that are inside _ensure_scaled with this name
OthersScaling(c, n) ==
    {d \in Callers \ {c} : call[d].fn = n /\ call[d].pc \in Scaling}

\* C18 - callers of distinct function names never block each other, callers
\* of one name are serialized.  A caller that arrives while no other caller
\* of its own name is inside _ensure_scaled takes the lock at once, whatever
\* callers of other names are doing; one that arrives while another caller
\* of its name is inside queues; a caller is queued only behind a caller of
\* its own name, and a caller that holds its lock can always take its next
\* step.
C18_Independence ==
    /\ [](\A c \in Callers :
            /\ call[c].pc = "waiting" => OthersScaling(c, call[c].fn) # {}
            /\ call[c].pc = "woken" => ENABLED lock_acquire_resume(c)
            /\ call[c].pc = "read" => ENABLED _ensure_scaled_read(c)
            /\ call[c].pc = "scale" => ENABLED _scale_deployment_to_one(c)
            /\ call[c].pc = "poll" => ENABLED _wait_for_pod_ready_read(c)
            /\ call[c].pc = "proxy" => ENABLED _proxy_to_function_service(c))
    /\ [][\A c \in Callers :
            (call[c].pc = "idle" /\ call'[c].pc # "idle")
                => IF OthersScaling(c, call'[c].fn) = {}
                   THEN call'[c].pc = "read"
                   ELSE call'[c].pc = "waiting"]_vars

\* a caller of "f" sleeps in its poll, holding the lock of "f", and a caller
\* of "g" that arrived after it has been served
C18_Witness ==
    \E c, d \in Callers :
        /\ call[c].fn = "f"
        /\ call[c].pc = "sleep"
        /\ function_locks["f"].locked
        /\ c < d
        /\ call[d].fn = "g"
        /\ call[d].pc = "done"
        /\ call[d].ensure = "ok"

\* C19 - single handle per name.  However the first accesses interleave, one
\* lock object is made per function name (its id is 1), every caller of the
\* name holds that object in its local `lock`, and an entry of
\* _function_locks, once inserted, is never removed and never replaced by
\* another object.
C19_SingleHandle ==
    /\ [](/\ \A n \in FunctionNames :
                function_locks[n] # NoLock => function_locks[n].id = 1
          /\ \A c \in Callers :
                call[c].pc # "idle"
                    => /\ function_locks[call[c].fn] # NoLock
                       /\ call[c].lock = function_locks[call[c].fn].id)
    /\ [][\A n \in FunctionNames :
            function_locks[n] # NoLock
                => /\ function_locks'[n] # NoLock
                   /\ function_locks'[n].id = function_locks[n].id]_vars

\* two callers of one name are inside _ensure_scaled together, the first
\* holding the lock and the second queued on the same object, while a third
\* name has no entry yet
C19_Witness ==
    \E c, d \in Callers :
        /\ c # d
        /\ call[c].fn = call[d].fn
        /\ call[c].pc \in {"read", "scale", "poll", "sleep"}
        /\ call[d].pc = "waiting"
        /\ call[c].lock = call[d].lock
        /\ function_locks[call[c].fn].waiters = <<d>>
        /\ \E n \in FunctionNames : function_locks[n] = NoLock

\* the invocations of the function n that ended with Timeout
TimedOut(n) ==
    {c \in Callers : call[c].fn = n /\ call[c].status = StatusTimeout}

\* C20 - after a Timeout the scale-up stays outstanding.  The step in which
\* _ensure_scaled raises Timeout leaves the workload as it is; as long as the
\* workload of a timed-out invocation exists its replica count is 1, no
\* gateway step changing it; and a later invocation of the same function
\* whose re-read succeeds with a ready count >= 1 returns success in that
\* step without a scale patch.
C20_Outstanding ==
    /\ [](\A c \in Callers :
            (call[c].status = StatusTimeout /\ deploy[WorkloadOf(c)].exists)
                => deploy[WorkloadOf(c)].replicas = 1)
    /\ [][\A c \in Callers :
            /\ (call'[c].status = StatusTimeout /\ call[c].status # StatusTimeout)
                  => deploy' = deploy
            /\ ( /\ TimedOut(call[c].fn) # {}
                 /\ call[c].pc = "read"
                 /\ call'[c].pc # "read"
                 /\ faults' = faults
                 /\ deploy[WorkloadOf(c)].exists
                 /\ deploy[WorkloadOf(c)].ready >= 1 )
               => /\ call'[c].pc = "proxy"
                  /\ call'[c].ensure = "ok"
                  /\ call'[c].patches = 0
                  /\ deploy' = deploy]_vars

\* an invocation of "f" timed out, the pod became ready afterwards, and a
\* later invocation of "f" was let through without patching
C20_Witness ==
    \E c, d \in Callers :
        /\ c < d
        /\ call[c].fn = "f"
        /\ call[c].pc = "done"
        /\ call[c].status = StatusTimeout
        /\ call[c].patches = 1
        /\ call[d].fn = "f"
        /\ call[d].ensure = "ok"
        /\ call[d].patches = 0
        /\ deploy["fn-f-deploy"] = Workload(1, 1)

\* the path after the /invoke/<name> prefix
AfterPrefix(path) == SubSeq(path, 3, Len(path))

\* a request under /invoke/f with a method of the route
UnderInvoke(request) ==
    /\ Len(request.path) >= 2
    /\ request.path[1] = "invoke"
    /\ request.path[2] = "f"
    /\ request.method \in RouteMethods

\* C21 - proxy passthrough.  A request under /invoke/f (as GET
\* /invoke/f/foo?x=1 with X-Test: a) is accepted, not answered by the router;
\* what is sent to f's endpoint has the path after the prefix, the inbound
\* query, the inbound headers but Host; and the backend's answer is returned
\* as it is.
C21_Passthrough ==
    UnderInvoke(http.request) =>
        /\ http.pc # "received" => http.function_name = "f"
        /\ http.outbound # NoRequest =>
              /\ http.outbound.host = _service_name_from_function("f")
              /\ http.outbound.method = http.request.method
              /\ http.outbound.path = AfterPrefix(http.request.path)
              /\ http.outbound.query = http.request.query
              /\ http.outbound.headers = forwarded_headers(http.request)
              /\ \A h \in http.outbound.headers : h.name # "host"
        /\ (http.pc = "done" /\ http.outbound # NoRequest) =>
              \/ http.response \in BackendAnswers
              \/ http.response.status = StatusBadGateway

\* C22 - the lock is released on every outcome.  A lock is held only while
\* a caller of its name is inside the read/patch/poll section, so a caller
\* that has left _ensure_scaled, with success or with any failure, holds
\* none; and, every orchestration call returning, a caller queued on a lock
\* acquires it and every call that arrived ends.
C22_Release ==
    /\ [](\A n \in FunctionNames :
            (function_locks[n] # NoLock /\ function_locks[n].locked)
                => \E c \in Callers : call[c].fn = n /\ InSection(c))
    /\ \A c \in Callers :
          /\ call[c].pc = "waiting" ~> call[c].pc = "read"
          /\ call[c].pc \in Scaling ~> call[c].pc = "done"

\* a call ended in a failure and its release woke the caller queued behind it
C22_Witness ==
    \E c, d \in Callers :
        /\ call[c].fn = call[d].fn
        /\ call[c].pc = "done"
        /\ call[c].ensure = "raised"
        /\ call[d].pc = "woken"
        /\ ~function_locks[call[c].fn].locked

\* ceil(T/I) of the settings, in exact arithmetic
CeilRatio(t, i) == ((t.n * i.d) + (t.d * i.n) - 1) \div (t.d * i.n)

\* C23 - bounded polling.  With interval I > 0 and ceiling T,
\* _wait_for_pod_ready makes at most ceil(T/I) reads; every read that
\* returned 0 is followed by a sleep before the next read; the first read
\* that returns >= 1 returns success; a failing read ends the wait at once
\* with 404 or 502; otherwise Timeout is raised after the last sleep without
\* a further read; and the wait always ends.
C23_BoundedPolling ==
    /\ [](/\ wait.reads <= CeilRatio(wait.timeout, wait.interval)
          /\ wait.pc \in {"loop", "read"} => wait.slept = wait.reads
          /\ wait.pc = "sleep" => wait.slept = wait.reads - 1
          /\ wait.status = StatusTimeout
                => /\ wait.pc = "raised"
                   /\ wait.slept = wait.reads)
    /\ [][(wait.pc = "read" /\ wait'.pc # "read")
            => /\ wait'.reads = wait.reads + 1
               /\ \/ wait'.pc = "sleep"
                  \/ wait'.pc = "returned" /\ wait'.status = 0
                  \/ /\ wait'.pc = "raised"
                     /\ wait'.status \in {StatusNotFound, StatusBadGateway}]_vars
    /\ <>(wait.pc \in {"idle", "returned", "raised"})

\* the place of a kind in the order of reconcile_function
Rank(kind) ==
    CASE kind = "cm" -> 1
      [] kind = "deploy" -> 2
      [] kind = "svc" -> 3
      [] kind = "hpa" -> 4

\* exactly the first n kinds have been upserted
UpsertedFirst(sent, n) ==
    \A k \in Kinds : sent[k] # NoBody <=> Rank(k) <= n

\* C24 - order of the upserts.  A running pass works on one kind, having
\* upserted exactly the kinds before it: code artifact, workload, endpoint,
\* then the autoscaler, which is reached only if the spec gates it in.  An
\* operator step changes no object but the one of the kind it works on.  A
\* pass that ends in a failure has upserted a proper prefix of that order and
\* its last step changes nothing: no later object is read, created or
\* patched, and the workload is untouched if the code artifact failed.
C24_Order ==
    /\ [](/\ rec.pc # "idle"
              => /\ rec.kind \in Kinds
                 /\ UpsertedFirst(rec.sent, Rank(rec.kind) - 1)
                 /\ rec.kind = "hpa" => HpaEnabled(rec.spec)
          /\ lastPass.outcome \notin {"none", "ok"}
              => /\ \E n \in 0..3 : UpsertedFirst(lastPass.sent, n)
                 /\ lastPass.sent.cm = NoBody => lastPass.sent.deploy = NoBody
          /\ lastPass.outcome = "ok"
              => UpsertedFirst(lastPass.sent,
                               IF HpaEnabled(lastPass.spec) THEN 4 ELSE 3))
    /\ [][/\ (rec' # rec /\ rec.pc # "idle")
              => \A k \in Kinds : k # rec.kind => Existing(k)' = Existing(k)
          /\ (rec' # rec /\ rec'.pc = "idle" /\ lastPass'.outcome # "ok")
              => /\ deploy' = deploy
                 /\ objects' = objects
                 /\ lastPass'.sent = rec.sent]_vars

\* a pass failed at the workload: the code artifact had been upserted, and
\* neither the endpoint nor the autoscaler was touched, though the spec gates
\* the autoscaler in
C24_Witness ==
    /\ lastPass.outcome = "TemporaryError"
    /\ UpsertedFirst(lastPass.sent, 1)
    /\ HpaEnabled(lastPass.spec)
    /\ objects.cm.exists
    /\ ~objects.svc.exists
    /\ ~objects.hpa.exists

\* C25 - the endpoint's address.  When upsert_service has read a Service
\* with an assigned address, the body it patches with carries that address;
\* and no step changes the address of a Service that exists before and after
\* it, so through any sequence of passes the address is the one assigned when
\* the Service was created.
C25_Address ==
    /\ [](/\ objects.svc.exists => objects.svc.cluster_ip \in AssignedIps
          /\ (rec.pc = "patch" /\ rec.kind = "svc" /\ objects.svc.exists)
                => rec.body.cluster_ip = objects.svc.cluster_ip)
    /\ [][/\ (objects.svc.exists /\ objects'.svc.exists)
                => objects'.svc.cluster_ip = objects.svc.cluster_ip
          /\ ( /\ rec.pc = "patch" /\ rec.kind = "svc" /\ rec' # rec
               /\ objects.svc.exists )
                => /\ objects'.svc.exists
                   /\ objects'.svc.body.cluster_ip = objects.svc.cluster_ip]_vars

\* two passes in a row have patched the Service of the earlier run, which
\* holds the address it had before the operator resumed
C25_Witness ==
    /\ lastPass.outcome = "ok"
    /\ lastPass.streak = 2
    /\ objects.svc.exists
    /\ objects.svc.cluster_ip = "10.0.0.9"
    /\ lastPass.sent.svc.cluster_ip = "10.0.0.9"

\* C26 - exclusion follows the workload.  Two invocations whose names
\* resolve to one workload are never both inside the read/patch/poll section,
\* and as long as none of them has failed they have issued at most one scale
\* patch for that workload between them.
C26_WorkloadExclusion ==
    /\ \A c, d \in Callers :
          (c # d /\ WorkloadOf(c) = WorkloadOf(d))
              => ~(InSection(c) /\ InSection(d))
    /\ \A w \in WorkloadNames : NoCallRaised(w) => Patches(w) <= 1

\* C27 - the scale patch never lowers the desired replica count.  The
\* replicas=1 patch is issued only where the workload's desired count is 0,
\* and no step of the gateway leaves a workload with a lower desired count
\* than it had.
C27_NeverLowers ==
    [][\A c \in Callers :
          /\ call'[c].patches > call[c].patches
                => deploy[WorkloadOf(c)].replicas = 0
          /\ \A w \in WorkloadNames :
                (deploy[w].exists /\ deploy'[w].exists)
                    => deploy'[w].replicas >= deploy[w].replicas]_vars

=============================================================================
